---- MODULE Spec2Model ----
(***************************************************************************)
(* Paillier cryptosystem of src/paillier/paillier.go: key generation with  *)
(* its background P search, encryption, CRT decryption and the three       *)
(* homomorphic operations, over math/big integers and big-endian bytes.    *)
(***************************************************************************)
EXTENDS Integers, Sequences, FiniteSets, TLC

(* ------------------------------ bounds --------------------------------- *)
\* largest key size `bits` a caller passes to GenerateKey
MaxBits == 10
\* plaintexts are drawn from 0..MaxPlain and from N-MaxPlain..N
MaxPlain == 1
\* nonces are drawn from 0..MaxNonce and from the MaxNonce+1 values below N
MaxNonce == 1
\* constants of Add and Mul are drawn from 0..MaxConst and N-1..N+MaxConst
MaxConst == 1
\* ciphertexts handed directly to Decrypt: 0..MaxCipher, N^2-1-MaxCipher..N^2+MaxCipher
MaxCipher == 1

(* ------------------------ math/big and encodings ----------------------- *)
\* a nil *big.Int (what ModInverse returns when no inverse exists)
Nil == -1

\* capacity of errChan: make(chan error, 1)
ChanCap == 1

RECURSIVE MulMod(_, _, _)
\* new(big.Int).Mod(new(big.Int).Mul(a, b), m) for 0 <= a, b and 0 < m,
\* evaluated by doubling, unless both factors are at most 46340, so that no
\* intermediate product leaves TLC's 32-bit integers
MulMod(a, b, m) ==
    IF a <= 46340 /\ b <= 46340 THEN (a * b) % m
    ELSE IF b = 0 THEN 0
    ELSE (2 * MulMod(a % m, b \div 2, m) + (b % 2) * (a % m)) % m

RECURSIVE Exp(_, _, _)
\* new(big.Int).Exp(x, y, m) for m > 0: x^y mod m, and 1 mod m when y <= 0
Exp(x, y, m) ==
    IF y <= 0 THEN 1 % m
    ELSE LET half == Exp(x, y \div 2, m)
             sq   == MulMod(half, half, m)
         IN  IF y % 2 = 1 THEN MulMod(sq, x % m, m) ELSE sq

RECURSIVE GCD(_, _)
GCD(a, b) == IF b = 0 THEN a ELSE GCD(b, a % b)

\* new(big.Int).ModInverse(g, n) for n > 0: nil when g and n are not coprime
\* (the documented behaviour of math/big since Go 1.11)
ModInverse(g, n) ==
    IF GCD(g % n, n) # 1 THEN Nil
    ELSE CHOOSE x \in 0..(n - 1) : ((g % n) * x) % n = 1 % n

RECURSIVE SetBytes(_)
\* new(big.Int).SetBytes(buf): buf read as a big-endian unsigned integer
SetBytes(buf) ==
    IF Len(buf) = 0 THEN 0
    ELSE 256 * SetBytes(SubSeq(buf, 1, Len(buf) - 1)) + buf[Len(buf)]

RECURSIVE Bytes(_)
\* x.Bytes(): the minimal big-endian encoding of x >= 0 (empty for 0)
Bytes(x) ==
    IF x = 0 THEN << >>
    ELSE Append(Bytes(x \div 256), x % 256)

(* --------------------------- crypto/rand ------------------------------- *)
\* ProbablyPrime(20), exact below 2^64
IsPrime(x) == x > 1 /\ \A d \in 2..(x - 1) : d * d > x \/ x % d # 0

RECURSIVE Pow2(_)
Pow2(k) == IF k <= 0 THEN 1 ELSE 2 * Pow2(k - 1)

\* the values rand.Prime(random, b) can return: b-bit primes with the two
\* top bits set (crypto/rand sets them so that a product of two such primes
\* has 2b bits); none when b < 2 (it then fails)
PrimesOfBits(b) ==
    IF b < 2 THEN {}
    ELSE {x \in (3 * Pow2(b - 2))..(Pow2(b) - 1) : IsPrime(x)}

\* the outcomes of one rand.Prime(random, b) call: a prime and a nil error,
\* or no prime and the error named e (the random source failed, or b < 2)
PrimeOutcomes(b, e) ==
    {[prime |-> x, err |-> "nil"] : x \in PrimesOfBits(b)}
        \cup {[prime |-> Nil, err |-> e]}

(* ------------------------------ keys ----------------------------------- *)
l(u, n) == (u - 1) \div n

h(p, pp, n) ==
    LET gp == (1 - n) % pp
        lp == l(gp, p)
    IN  ModInverse(lp, p)

\* the *PrivateKey literal GenerateKey returns for the primes p and q
NewPrivateKey(p, q) ==
    LET n == p * q
    IN  [N1 |-> n, NSquared |-> n * n, G |-> n + 1,
         P |-> p, PP |-> p * p, Pminusone |-> p - 1,
         Q |-> q, QQ |-> q * q, Qminusone |-> q - 1,
         Pinvq |-> ModInverse(p, q),
         Hp |-> h(p, p * p, n), Hq |-> h(q, q * q, n),
         N |-> n]

\* the nil *PrivateKey returned with an error
NilKey ==
    [N1 |-> Nil, NSquared |-> Nil, G |-> Nil,
     P |-> Nil, PP |-> Nil, Pminusone |-> Nil,
     Q |-> Nil, QQ |-> Nil, Qminusone |-> Nil,
     Pinvq |-> Nil, Hp |-> Nil, Hq |-> Nil, N |-> Nil]

(* ----------------------------- encryption ------------------------------ *)
\* EncryptWithNonce with the bound its comment names (N1 < m) instead of the
\* one it tests
EncryptWithNonceStrictBound(pubKey, r, plainText) ==
    LET m == SetBytes(plainText)
        n == pubKey.N1
    IN  IF n < m
        THEN [c |-> Nil, err |-> "ErrMessageTooLong"]
        ELSE [c |-> MulMod((1 + m * n) % pubKey.NSquared,
                           Exp(r, n, pubKey.NSquared),
                           pubKey.NSquared),
              err |-> "nil"]

\* lines 123-140. The result is [c, err]: the ciphertext integer, or nil and
\* ErrMessageTooLong.
EncryptWithNonce(pubKey, r, plainText) ==
    LET m == SetBytes(plainText)
        n == pubKey.N1
    IN  IF n <= m
        THEN [c |-> Nil, err |-> "ErrMessageTooLong"]
        ELSE [c |-> MulMod((1 + m * n) % pubKey.NSquared,
                           Exp(r, n, pubKey.NSquared),
                           pubKey.NSquared),
              err |-> "nil"]

\* the outcomes of rand.Int(rand.Reader, max): a value of [0, max) (those near
\* 0, those near max and the divisors of max are drawn), or the error of the
\* random source
RandInt(max) ==
    {[r |-> x, err |-> "nil"] :
        x \in {y \in 0..(max - 1) :
                  y <= MaxNonce \/ y >= max - 1 - MaxNonce \/ (y > 1 /\ max % y = 0)}}
        \cup {[r |-> Nil, err |-> "errRand"]}

\* lines 106-118, for the outcome `draw` of its rand.Int call. The result is
\* [c, r, err]: ciphertext bytes and nonce, or nil, nil and the error.
EncryptAndNonce(pubKey, plainText, draw) ==
    IF draw.err # "nil"
    THEN [c |-> << >>, r |-> Nil, err |-> draw.err]
    ELSE LET e == EncryptWithNonce(pubKey, draw.r, plainText)
         IN  IF e.err # "nil"
             THEN [c |-> << >>, r |-> Nil, err |-> e.err]
             ELSE [c |-> Bytes(e.c), r |-> draw.r, err |-> "nil"]

\* lines 98-101: EncryptAndNonce with the nonce dropped
Encrypt(pubKey, plainText, draw) ==
    LET e == EncryptAndNonce(pubKey, plainText, draw)
    IN  [c |-> e.c, err |-> e.err]

(* ----------------------------- decryption ------------------------------ *)
\* crt with the difference taken the wrong way round
crtSwapped(mp, mq, privKey) ==
    LET u == ((mp - mq) * privKey.Pinvq) % privKey.Q
        m == mp + u * privKey.P
    IN  m % privKey.N

\* lines 162-166
crt(mp, mq, privKey) ==
    LET u == ((mq - mp) * privKey.Pinvq) % privKey.Q
        m == mp + u * privKey.P
    IN  m % privKey.N

\* lines 143-160. The result is [m, err]; err is "panic" when a nil key
\* field (Hp, Hq, Pinvq) is dereferenced by Mul.
Decrypt(privKey, cipherText) ==
    LET c == SetBytes(cipherText)
    IN  IF privKey.NSquared <= c
        THEN [m |-> << >>, err |-> "ErrMessageTooLong"]
        ELSE IF privKey.Hp = Nil \/ privKey.Hq = Nil \/ privKey.Pinvq = Nil
        THEN [m |-> << >>, err |-> "panic"]
        ELSE LET cp == Exp(c, privKey.Pminusone, privKey.PP)
                 lp == l(cp, privKey.P)
                 mp == (lp * privKey.Hp) % privKey.P
                 cq == Exp(c, privKey.Qminusone, privKey.QQ)
                 lq == l(cq, privKey.Q)
                 mqq == lq * privKey.Hq
                 mq == mqq % privKey.Q
                 m == crt(mp, mq, privKey)
             IN  [m |-> Bytes(m), err |-> "nil"]

(* ------------------------- homomorphic algebra ------------------------- *)
\* lines 171-180
AddCipher(pubKey, cipher1, cipher2) ==
    LET x == SetBytes(cipher1)
        y == SetBytes(cipher2)
    IN  Bytes(MulMod(x, y, pubKey.NSquared))

\* lines 186-195
Add(pubKey, cipher, constant) ==
    LET c == SetBytes(cipher)
        x == SetBytes(constant)
    IN  Bytes(MulMod(c, Exp(pubKey.G, x, pubKey.NSquared), pubKey.NSquared))

\* lines 201-207
Mul(pubKey, cipher, constant) ==
    LET c == SetBytes(cipher)
        x == SetBytes(constant)
    IN  Bytes(Exp(c, x, pubKey.NSquared))

(* ------------------------------ inputs --------------------------------- *)
\* plaintext byte sequences a caller passes for the modulus n: the minimal
\* encodings of the integers near 0 and near n, and one with a leading zero
PlainTexts(n) ==
    {Bytes(m) : m \in {x \in 0..n : x <= MaxPlain \/ x >= n - MaxPlain}}
        \cup {<<0, 1>>}

\* nonces a caller passes to EncryptWithNonce: those of [0, n) that
\* EncryptAndNonce draws (the divisors of n among them), and the first ones
\* from n on
Nonces(n) ==
    {x \in 0..(n + MaxNonce) :
        x <= MaxNonce \/ x >= n - 1 - MaxNonce \/ (x > 1 /\ n % x = 0)}

\* constants a caller passes to Add and Mul
Constants(n) ==
    {Bytes(k) : k \in {x \in 0..(n + MaxConst) : x <= MaxConst \/ x >= n - 1}}

\* ciphertexts a caller passes straight to Decrypt
CipherTexts(nn) ==
    {Bytes(c) : c \in {x \in 0..(nn + MaxCipher) :
                          x <= MaxCipher \/ x >= nn - 1 - MaxCipher}}

BitSizes == 2..MaxBits

VARIABLES
    bits,      \* GenerateKey's argument
    mainpc,    \* position of GenerateKey's own goroutine
    bgpc,      \* position of the goroutine searching for P
    p,         \* the variable p shared by the two goroutines
    perr,      \* err of the background goroutine
    q, qerr,   \* q, err of the foreground search
    errChan,   \* buffered channel, as the sequence of values in it
    ret,       \* what GenerateKey returned: [key, err]
    enc,       \* the encryption calls made with the key, in order
    hom,       \* the homomorphic call made on their ciphertexts
    dec        \* the Decrypt call made

keygen == <<bits, mainpc, bgpc, p, perr, q, qerr, errChan, ret>>
vars == <<bits, mainpc, bgpc, p, perr, q, qerr, errChan, ret, enc, hom, dec>>

NoHom == [op |-> "none", constant |-> << >>, c |-> << >>]
NoDec == [called |-> FALSE, c |-> << >>, m |-> << >>, err |-> "none"]

Init ==
    /\ bits \in BitSizes
    /\ mainpc = "spawn"
    /\ bgpc = "unborn"
    /\ p = Nil
    /\ perr = "nil"
    /\ q = Nil
    /\ qerr = "nil"
    /\ errChan = << >>
    /\ ret = [key |-> NilKey, err |-> "none"]
    /\ enc = << >>
    /\ hom = NoHom
    /\ dec = NoDec

(* --------------------------- GenerateKey ------------------------------- *)
\* lines 20-26: make the channel and start the goroutine
MainSpawn ==
    /\ mainpc = "spawn"
    /\ mainpc' = "qsearch"
    /\ bgpc' = "search"
    /\ UNCHANGED <<bits, p, perr, q, qerr, errChan, ret, enc, hom, dec>>

\* line 24: p, err = rand.Prime(random, bits/2)
BgSearch ==
    /\ bgpc = "search"
    /\ \E o \in PrimeOutcomes(bits \div 2, "errP") :
          /\ p' = o.prime
          /\ perr' = o.err
    /\ bgpc' = "send"
    /\ UNCHANGED <<bits, mainpc, q, qerr, errChan, ret, enc, hom, dec>>

\* BgSend on an unbuffered channel: the send waits for the receiver
BgSendUnbuffered ==
    /\ bgpc = "send"
    /\ mainpc = "recv"
    /\ Len(errChan) = 0
    /\ errChan' = Append(errChan, perr)
    /\ bgpc' = "done"
    /\ UNCHANGED <<bits, mainpc, p, perr, q, qerr, ret, enc, hom, dec>>

\* line 25: errChan <- err, which blocks while the buffer is full
BgSend ==
    /\ bgpc = "send"
    /\ Len(errChan) < ChanCap
    /\ errChan' = Append(errChan, perr)
    /\ bgpc' = "done"
    /\ UNCHANGED <<bits, mainpc, p, perr, q, qerr, ret, enc, hom, dec>>

\* line 29: q, err := rand.Prime(random, bits/2)
MainSearch ==
    /\ mainpc = "qsearch"
    /\ \E o \in PrimeOutcomes(bits \div 2, "errQ") :
          /\ q' = o.prime
          /\ qerr' = o.err
    /\ mainpc' = "qcheck"
    /\ UNCHANGED <<bits, bgpc, p, perr, errChan, ret, enc, hom, dec>>

\* MainCheckQ joining the P search before it looks at Q's error
MainCheckQJoinsFirst ==
    /\ mainpc = "qcheck"
    /\ Len(errChan) > 0
    /\ errChan' = Tail(errChan)
    /\ IF Head(errChan) # "nil"
       THEN /\ mainpc' = "returned"
            /\ ret' = [key |-> NilKey, err |-> Head(errChan)]
       ELSE IF qerr # "nil"
       THEN /\ mainpc' = "returned"
            /\ ret' = [key |-> NilKey, err |-> qerr]
       ELSE /\ mainpc' = "returned"
            /\ ret' = [key |-> NewPrivateKey(p, q), err |-> "nil"]
    /\ UNCHANGED <<bits, bgpc, p, perr, q, qerr, enc, hom, dec>>

\* lines 30-32: if err != nil { return nil, err }
MainCheckQ ==
    /\ mainpc = "qcheck"
    /\ IF qerr # "nil"
       THEN /\ mainpc' = "returned"
            /\ ret' = [key |-> NilKey, err |-> qerr]
       ELSE /\ mainpc' = "recv"
            /\ ret' = ret
    /\ UNCHANGED <<bits, bgpc, p, perr, q, qerr, errChan, enc, hom, dec>>

\* lines 35-59: receive P's error; return it, or build and return the key
MainRecv ==
    /\ mainpc = "recv"
    /\ Len(errChan) > 0
    /\ errChan' = Tail(errChan)
    /\ mainpc' = "returned"
    /\ ret' = IF Head(errChan) # "nil"
              THEN [key |-> NilKey, err |-> Head(errChan)]
              ELSE [key |-> NewPrivateKey(p, q), err |-> "nil"]
    /\ UNCHANGED <<bits, bgpc, p, perr, q, qerr, enc, hom, dec>>

NextKeyGen ==
    \/ MainSpawn
    \/ BgSearch
    \/ BgSend
    \/ MainSearch
    \/ MainCheckQ
    \/ MainRecv

KeyGenSpec == Init /\ [][NextKeyGen]_vars

\* a goroutine that can run is run: the scheduler leaves neither the
\* background search nor its send waiting forever once they can proceed
FairKeyGenSpec == KeyGenSpec /\ WF_vars(BgSearch) /\ WF_vars(BgSend)

(* ------------------------ calls made with the key ---------------------- *)
\* GenerateKey has returned a key
HasKey == mainpc = "returned" /\ ret.err = "nil"

\* the ciphertexts of the encryption calls that returned one
Good(i) == i \in 1..Len(enc) /\ enc[i].err = "nil"

\* Encrypt(&key.PublicKey, plainText)
CallEncrypt ==
    /\ HasKey
    /\ Len(enc) < 2 /\ hom = NoHom /\ dec = NoDec
    /\ \E plainText \in PlainTexts(ret.key.N1), draw \in RandInt(ret.key.N1) :
          LET e == Encrypt(ret.key, plainText, draw)
          IN  enc' = Append(enc, [op |-> "Encrypt", plainText |-> plainText,
                                  r |-> draw.r, c |-> e.c, err |-> e.err])
    /\ UNCHANGED <<keygen, hom, dec>>

\* EncryptWithNonce(&key.PublicKey, r, plainText), the caller keeping c.Bytes()
CallEncryptWithNonce ==
    /\ HasKey
    /\ Len(enc) < 2 /\ hom = NoHom /\ dec = NoDec
    /\ \E plainText \in PlainTexts(ret.key.N1), r \in Nonces(ret.key.N1) :
          LET e == EncryptWithNonce(ret.key, r, plainText)
          IN  enc' = Append(enc, [op |-> "EncryptWithNonce", plainText |-> plainText,
                                  r |-> r,
                                  c |-> IF e.err = "nil" THEN Bytes(e.c) ELSE << >>,
                                  err |-> e.err])
    /\ UNCHANGED <<keygen, hom, dec>>

\* AddCipher(&key.PublicKey, c1, c2) on the two ciphertexts obtained
CallAddCipher ==
    /\ HasKey
    /\ hom = NoHom /\ dec = NoDec
    /\ Len(enc) = 2 /\ Good(1) /\ Good(2)
    /\ hom' = [op |-> "AddCipher", constant |-> << >>,
               c |-> AddCipher(ret.key, enc[1].c, enc[2].c)]
    /\ UNCHANGED <<keygen, enc, dec>>

\* Add(&key.PublicKey, c, constant) on the ciphertext obtained
CallAdd ==
    /\ HasKey
    /\ hom = NoHom /\ dec = NoDec
    /\ Len(enc) = 1 /\ Good(1)
    /\ \E constant \in Constants(ret.key.N1) :
          hom' = [op |-> "Add", constant |-> constant,
                  c |-> Add(ret.key, enc[1].c, constant)]
    /\ UNCHANGED <<keygen, enc, dec>>

\* Mul(&key.PublicKey, c, constant) on the ciphertext obtained
CallMul ==
    /\ HasKey
    /\ hom = NoHom /\ dec = NoDec
    /\ Len(enc) = 1 /\ Good(1)
    /\ \E constant \in Constants(ret.key.N1) :
          hom' = [op |-> "Mul", constant |-> constant,
                  c |-> Mul(ret.key, enc[1].c, constant)]
    /\ UNCHANGED <<keygen, enc, dec>>

\* what the caller decrypts: the homomorphic result, else a ciphertext it
\* obtained, else one it was handed
DecryptInputs ==
    IF hom # NoHom THEN {hom.c}
    ELSE IF Len(enc) = 0 THEN CipherTexts(ret.key.NSquared)
    ELSE {enc[i].c : i \in {j \in 1..Len(enc) : Good(j)}}

\* Decrypt(key, cipherText)
CallDecrypt ==
    /\ HasKey
    /\ dec = NoDec
    /\ \E cipherText \in DecryptInputs :
          LET d == Decrypt(ret.key, cipherText)
          IN  dec' = [called |-> TRUE, c |-> cipherText, m |-> d.m, err |-> d.err]
    /\ UNCHANGED <<keygen, enc, hom>>

Next ==
    \/ NextKeyGen
    \/ CallEncrypt
    \/ CallEncryptWithNonce
    \/ CallAddCipher
    \/ CallAdd
    \/ CallMul
    \/ CallDecrypt

Spec == Init /\ [][Next]_vars

(* ======================= properties of GenerateKey ===================== *)
\* the P search has failed and its error is in the channel
PFailureDelivered == Len(errChan) > 0 /\ Head(errChan) # "nil"

C9_DistinctPrimes == HasKey => ret.key.P # ret.key.Q

\* C10: once the background prime search has returned, the goroutine's send
\* completes and the goroutine ends, in every interleaving.
C10_BackgroundTaskTerminates == (bgpc = "send") ~> (bgpc = "done")

\* the goroutine has ended although GenerateKey returned Q's error without
\* ever receiving: the value stays in the buffer
C10_Witness ==
    mainpc = "returned" /\ ret.err = "errQ" /\ bgpc = "done" /\ Len(errChan) = 1

(* ================ properties of the calls made with a key ============== *)
N == ret.key.N1
NSquared == ret.key.NSquared

\* the plaintext integer of the i-th encryption call
PlainInt(i) == SetBytes(enc[i].plainText)

\* r is a unit modulo n
Coprime(r, n) == GCD(r % n, n) = 1

\* the key has two distinct primes, so Hp, Hq and Pinvq exist
DistinctPrimes == ret.key.P # ret.key.Q

\* the calls made are Encrypt, perhaps a homomorphic operation, then Decrypt
DecryptedAfter(op) ==
    /\ HasKey /\ dec.called /\ hom.op = op
    /\ \A i \in 1..Len(enc) : enc[i].op = "Encrypt" /\ Good(i)

\* C1: round trip. Decrypt(priv, Encrypt(pub, m)) returns m for every
\* plaintext m < N and every nonce Encrypt draws from [0, N). Stated for
\* the keys with P # Q: it fails even there.
C1_RoundTrip ==
    (DecryptedAfter("none") /\ Len(enc) = 1 /\ DistinctPrimes)
        => (dec.err = "nil" /\ SetBytes(dec.m) = PlainInt(1))

\* C2: homomorphic addition. Decrypting AddCipher of the encryptions of m1
\* and m2 yields (m1 + m2) mod N. Stated for the keys with P # Q.
C2_HomomorphicAddition ==
    (DecryptedAfter("AddCipher") /\ DistinctPrimes)
        => (dec.err = "nil" /\ SetBytes(dec.m) = (PlainInt(1) + PlainInt(2)) % N)

\* C3: add-constant. Decrypting Add of the encryption of m and a constant k,
\* of any size, yields (m + k) mod N. Stated for the keys with P # Q.
C3_AddConstant ==
    (DecryptedAfter("Add") /\ DistinctPrimes)
        => (dec.err = "nil"
            /\ SetBytes(dec.m) = (PlainInt(1) + SetBytes(hom.constant)) % N)

\* C4: scalar multiply. Decrypting Mul of the encryption of m and a constant
\* k, of any size, yields (m * k) mod N. Stated for the keys with P # Q.
C4_ScalarMultiply ==
    (DecryptedAfter("Mul") /\ DistinctPrimes)
        => (dec.err = "nil"
            /\ SetBytes(dec.m) = (PlainInt(1) * SetBytes(hom.constant)) % N)

\* what Decrypt must return after the calls made, were the homomorphic
\* properties to hold
Expected ==
    CASE hom.op = "AddCipher" -> {(PlainInt(1) + PlainInt(2)) % N}
      [] hom.op = "Add" -> {(PlainInt(1) + SetBytes(hom.constant)) % N}
      [] hom.op = "Mul" -> {(PlainInt(1) * SetBytes(hom.constant)) % N}
      [] OTHER -> {PlainInt(i) : i \in {j \in 1..Len(enc) : enc[j].c = dec.c}}

\* Where C1 to C4 do hold: on a key with P # Q, when every nonce Encrypt
\* drew is coprime to N, the round trip and the three homomorphic
\* properties hold.
HomomorphicForUnitNonces ==
    (/\ HasKey /\ DistinctPrimes /\ dec.called /\ Len(enc) > 0
     /\ \A i \in 1..Len(enc) :
           enc[i].op = "Encrypt" /\ Good(i) /\ Coprime(enc[i].r, N))
        => (dec.err = "nil" /\ SetBytes(dec.m) \in Expected)

\* what the encryption bound asks of the i-th call: ErrMessageTooLong exactly
\* when m >= N, and otherwise no error and a ciphertext below N^2
BoundDecides(i) ==
    /\ (enc[i].err = "ErrMessageTooLong") <=> (PlainInt(i) >= N)
    /\ PlainInt(i) < N => (enc[i].err = "nil" /\ SetBytes(enc[i].c) < NSquared)

C6_DecryptionBound ==
    (HasKey /\ dec.called) =>
        /\ (dec.err = "ErrMessageTooLong") <=> (SetBytes(dec.c) >= NSquared)
        /\ SetBytes(dec.c) < NSquared => dec.err = "nil"

\* two EncryptWithNonce calls on the same plaintext with different nonces
SamePlainTwoNonces ==
    /\ HasKey /\ Len(enc) = 2
    /\ enc[1].op = "EncryptWithNonce" /\ enc[2].op = "EncryptWithNonce"
    /\ Good(1) /\ Good(2)
    /\ PlainInt(1) = PlainInt(2)
    /\ enc[1].r # enc[2].r

====
